---------------------------- MODULE Spec2Model ----------------------------
(***************************************************************************)
(* A model of the RTP-Net training engine (src/train.py) and of the        *)
(* encoder-decoder network it drives (src/network/vbbnet.py).              *)
(*                                                                         *)
(* Three specifications share the variables below:                         *)
(*   Spec     train(): start-up, resume, the batch loop                    *)
(*   SpecChk  save_checkpoint / load_checkpoint on a checkpoint folder     *)
(*   SpecNet  SegmentationNet.forward, one statement at a time             *)
(*                                                                         *)
(* Tensors are modelled by their shape (channels and the three spatial     *)
(* extents; the batch axis is carried unchanged by every layer and is      *)
(* left out).  Parameter sets and optimizer states are modelled by a       *)
(* version number: 0 is the freshly initialised value, every optimizer     *)
(* step yields the next version.                                           *)
(***************************************************************************)
EXTENDS Integers, Sequences, FiniteSets, TLC

VARIABLES
    \* ---- train() ----
    pc,                 \* position of train()
    err,                \* the exception that ended train() ("none" if none)
    errAt,              \* the step that raised it
    general,            \* cfg.general: resume_epoch, clear_start_epoch
    save_dir_exists,    \* os.path.isdir(cfg.general.save_dir)
    prompt,             \* whether the operator was asked, and the raw answer
    store,              \* save_dir/checkpoints: epoch -> the files of chk_<epoch>
    dataset,            \* cfg.dataset, cfg.net and what the dataset object reports
    trainCfg,           \* cfg.train
    lossCfg,            \* cfg.loss
    netParams,          \* the network's parameters   (net.state_dict())
    optState,           \* the optimizer's state      (opt.state_dict())
    last_epoch,         \* scheduler.last_epoch, the scheduler's cursor
    batch_idx,
    iter,               \* i of "for i in range(len(data_loader))"
    epoch_idx,
    last_save_epoch,
    batch_losses,       \* the accumulator: the iterations whose loss it holds
    plotted,            \* the points handed to plot_progress
    \* ---- history of train() ----
    fwdCalls,           \* forward passes started
    bwdCalls,           \* backward passes
    optSteps,           \* optimizer steps
    schedLog,           \* per batch: epoch_idx, cursor before, cursor after
    saveLog,            \* per save_checkpoint call: epoch, batch, iteration
    firstIter,          \* epoch -> << first iteration with that epoch_idx >>
    \* ---- checkpoint store used on its own ----
    chk,
    \* ---- SegmentationNet.forward ----
    fwd

trainVars == << pc, err, errAt, general, save_dir_exists, prompt, dataset, trainCfg,
                lossCfg,
                last_epoch, batch_idx, iter, epoch_idx, last_save_epoch,
                batch_losses, plotted, fwdCalls, bwdCalls, optSteps, schedLog,
                saveLog, firstIter >>
modelVars == << store, netParams, optState >>
vars == << trainVars, modelVars, chk, fwd >>

----------------------------------------------------------------------------
(***************************************************************************)
(* Bounds of the model.                                                    *)
(***************************************************************************)
MaxInChannels  == 2      \* in_channels in 1..MaxInChannels
MaxOutChannels == 3      \* out_channels in 1..MaxOutChannels
MaxExtentUnits == 4      \* forward's inputs have extents 16 * (1..MaxExtentUnits)
MaxCropUnits   == 4      \* cfg.dataset.crop_size has extents 8 * (1..MaxCropUnits)
MaxBatchsize   == 2      \* cfg.train.batchsize in 1..MaxBatchsize
MaxDataLen     == 2      \* len(dataset) in 1..MaxDataLen
MaxEpochs      == 3      \* cfg.train.epochs in 1..MaxEpochs
MaxSaveEpochs  == 2      \* cfg.train.save_epochs in 1..MaxSaveEpochs
MaxPlotSnapshot == 2     \* cfg.train.plot_snapshot in 1..MaxPlotSnapshot
MaxChkBatch    == 1      \* batch offsets saved in the checkpoint store used on its own
MaxChkEpoch    == 1      \* epochs of the checkpoint store used on its own
MaxChkOps      == 3      \* operations on the checkpoint store used on its own

----------------------------------------------------------------------------
(***************************************************************************)
(* src/network/vbbnet.py                                                   *)
(***************************************************************************)

\* A tensor: channel count c, spatial extents s, and whether the last
\* operation that produced it was a softmax over the channel axis.  As its
\* identity it carries the local variable of the forward method that held
\* it (local) and the attribute of the network whose call returned it (by);
\* both are "" for a tensor no module made.
Tensor(c, s, sm) == [c |-> c, s |-> s, softmax |-> sm, local |-> "", by |-> ""]
Local(name, t) == [t EXCEPT !.local = name]

\* The result of calling a module: a tensor, or the exception raised.
Ok(t)     == [ok |-> TRUE,  t |-> t, err |-> "none"]
Raise(e)  == [ok |-> FALSE, t |-> Tensor(0, <<0, 0, 0>>, FALSE), err |-> e]

\* nn.Conv3d(kernel_size=2, stride=2): floor((n - 2) / 2) + 1 per axis;
\* an axis shorter than the kernel is an error.
ConvDown(s)   == [k \in 1..3 |-> ((s[k] - 2) \div 2) + 1]
ConvDownOk(s) == \A k \in 1..3 : s[k] >= 2

\* nn.ConvTranspose3d(kernel_size=2, stride=2): (n - 1) * 2 + 2 per axis.
ConvUp(s) == [k \in 1..3 |-> (s[k] - 1) * 2 + 2]

Module(kind, inC, outC, nConvs, bottle) ==
    [kind |-> kind, inC |-> inC, outC |-> outC, nConvs |-> nConvs, bottle |-> bottle]

\* The constructors, with the arguments __init__ passes on.
PreBlock(in_channels, out_channels) ==
    Module("PreBlock", in_channels, out_channels, 0, FALSE)
InputTransition(inChans) ==
    Module("InputTransition", inChans, 16, 0, FALSE)
DownTransition(inChans, nConvs, use_bottle) ==
    Module("DownTransition", inChans, 2 * inChans, nConvs, use_bottle)
UpTransition(inChans, outChans, nConvs, use_bottle) ==
    Module("UpTransition", inChans, outChans, nConvs, use_bottle)
OutputTransition(inChans, outChans) ==
    Module("OutputTransition", inChans, outChans, 0, FALSE)
PostBlock(in_channels, out_channels) ==
    Module("PostBlock", in_channels, out_channels, 0, FALSE)

\* SegmentationNet.__init__: the attributes the instance has.
SegmentationNet(in_channels, out_channels) ==
    [ pre_block  |-> PreBlock(in_channels, in_channels),
      in_tr      |-> InputTransition(in_channels),
      down_tr32  |-> DownTransition(16, 2, FALSE),
      down_tr64  |-> DownTransition(32, 3, TRUE),
      down_tr128 |-> DownTransition(64, 4, TRUE),
      down_tr256 |-> DownTransition(128, 4, TRUE),
      up_tr256   |-> UpTransition(256, 256, 4, TRUE),
      up_tr128   |-> UpTransition(256, 128, 4, TRUE),
      up_tr64    |-> UpTransition(128, 64, 3, FALSE),
      up_tr32    |-> UpTransition(64, 32, 2, FALSE),
      pro_block  |-> OutputTransition(32, out_channels),
      post_block |-> PostBlock(out_channels, out_channels),
      out_tr     |-> OutputTransition(in_channels + out_channels, out_channels) ]

\* SegmentationNet.forward: dst = self.<attr>(args), statement by statement.
Stmt(dst, attr, args) == [dst |-> dst, attr |-> attr, args |-> args]
ForwardBody ==
    << Stmt("dout",   "pre_block",  <<"x">>),
       Stmt("out16",  "in_tr",      <<"dout">>),
       Stmt("out32",  "down_tr32",  <<"out16">>),
       Stmt("out64",  "down_tr64",  <<"out32">>),
       Stmt("out128", "down_tr128", <<"out64">>),
       Stmt("out256", "down_tr256", <<"out128">>),
       Stmt("out",    "up_tr256",   <<"out256", "out128">>),
       Stmt("out",    "up_tr128",   <<"out", "out64">>),
       Stmt("out",    "up_tr64",    <<"out", "out32">>),
       Stmt("out",    "up_tr32",    <<"out", "out16">>),
       Stmt("out",    "pro_block",  <<"out">>),
       Stmt("out",    "post_block", <<"out", "x">>),
       Stmt("out",    "out_block",  <<"out">>) >>

\* PreBlock.forward: act(bn(conv(input))), conv = Conv3d(in, out, 2, stride 2).
PreBlockForward(m, x) ==
    IF x.c = m.inC /\ ConvDownOk(x.s)
    THEN Ok(Local("out", Tensor(m.outC, ConvDown(x.s), FALSE)))
    ELSE Raise("RuntimeError")

\* InputTransition.forward: relu1(bn1(conv1(x))), conv1 = Conv3d(in, 16, 3, padding 1).
InputTransitionForward(m, x) ==
    IF x.c = m.inC
    THEN Ok(Local("out", Tensor(m.outC, x.s, FALSE)))
    ELSE Raise("RuntimeError")

\* DownTransition.forward returning its local "down" instead of "out".
DownTransitionForward_ReturnsDown(m, x) ==
    IF x.c = m.inC /\ ConvDownOk(x.s)
    THEN Ok(Local("down", Tensor(m.outC, ConvDown(x.s), FALSE)))
    ELSE Raise("RuntimeError")

\* DownTransition.forward: down = relu1(bn1(down_conv(x))); out = ops(down);
\* out = relu2(out + down); return out.  ops keeps the width 2 * inChans.
DownTransitionForward(m, x) ==
    IF x.c = m.inC /\ ConvDownOk(x.s)
    THEN LET down == Local("down", Tensor(m.outC, ConvDown(x.s), FALSE))
             out  == Local("out", Tensor(down.c, down.s, FALSE))
         IN  Ok(out)
    ELSE Raise("RuntimeError")

\* UpTransition.forward: out = relu1(bn1(up_conv(x))); xcat = cat((out, do2(skipx)), 1);
\* out = ops(xcat); relu2(out + xcat).  up_conv = ConvTranspose3d(in, out // 2, 2, 2),
\* ops = _make_nConv(outChans, ...), whose first convolution takes outChans channels.
UpTransitionForward(m, x, skipx) ==
    IF x.c = m.inC
       /\ ConvUp(x.s) = skipx.s
       /\ (m.outC \div 2) + skipx.c = m.outC
    THEN Ok(Local("out", Tensor(m.outC, skipx.s, FALSE)))
    ELSE Raise("RuntimeError")

\* OutputTransition.forward: softmax(conv2(relu1(bn1(conv1(x))))).
OutputTransitionForward(m, x) ==
    IF x.c = m.inC
    THEN Ok(Local("out", Tensor(m.outC, x.s, TRUE)))
    ELSE Raise("RuntimeError")

\* PostBlock.forward: cat((up_act(up_bn(up_conv(input))), skip), 1).
PostBlockForward(m, input, skip) ==
    IF input.c = m.inC /\ ConvUp(input.s) = skip.s
    THEN Ok(Local("out", Tensor(m.outC + skip.c, skip.s, FALSE)))
    ELSE Raise("RuntimeError")

\* self.<attr>(args): nn.Module.__call__ dispatching on the module's class.
CallModule(m, a) ==
    CASE m.kind = "PreBlock"         -> PreBlockForward(m, a[1])
      [] m.kind = "InputTransition"  -> InputTransitionForward(m, a[1])
      [] m.kind = "DownTransition"   -> DownTransitionForward(m, a[1])
      [] m.kind = "UpTransition"     -> UpTransitionForward(m, a[1], a[2])
      [] m.kind = "OutputTransition" -> OutputTransitionForward(m, a[1])
      [] m.kind = "PostBlock"        -> PostBlockForward(m, a[1], a[2])

\* The tensor the call self.<attr>(...) returned.
ReturnedBy(attr, r) == IF r.ok THEN Ok([r.t EXCEPT !.by = attr]) ELSE r

\* One statement of forward in the environment env (names -> tensors) of the
\* instance self: an attribute __init__ never set raises AttributeError.
ExecStmt(self, env, st) ==
    IF st.attr \notin DOMAIN self
    THEN Raise("AttributeError")
    ELSE ReturnedBy(st.attr,
             CallModule(self[st.attr], [k \in 1..Len(st.args) |-> env[st.args[k]]]))

\* The names forward binds; a name holds << >> until it is bound.
TensorNames == {"x", "dout", "out16", "out32", "out64", "out128", "out256", "out"}
Bind(env, name, t) == [env EXCEPT ![name] = t]
InitEnv(x) == [n \in TensorNames |-> IF n = "x" THEN x ELSE Tensor(0, <<0, 0, 0>>, FALSE)]

\* forward run to its end from statement k: the returned tensor or the exception.
RECURSIVE RunFrom(_, _, _)
RunFrom(self, env, k) ==
    IF k > Len(ForwardBody)
    THEN Ok(env["out"])
    ELSE LET r == ExecStmt(self, env, ForwardBody[k])
         IN  IF r.ok
             THEN RunFrom(self, Bind(env, ForwardBody[k].dst, r.t), k + 1)
             ELSE r

\* net(crops) for a SegmentationNet(in_channels, out_channels) of vbbnet.
Forward(in_channels, out_channels, x) ==
    RunFrom(SegmentationNet(in_channels, out_channels), InitEnv(x), 1)


\* The inputs forward is run on: 5-D volumes with in_channels channels whose
\* spatial extents are multiples of 16.
Extents == { 16 * k : k \in 1..MaxExtentUnits }
Shapes  == { <<d, h, w>> : d \in Extents, h \in Extents, w \in Extents }

FwdIdle == [pc |-> 0, in_channels |-> 0, out_channels |-> 0,
            env |-> InitEnv(Tensor(0, <<0, 0, 0>>, FALSE)),
            err |-> "none", returned |-> FALSE, skips |-> << >>]

\* model = SegmentationNet(in_channels, out_channels); model(x)
ForwardCall ==
    /\ fwd.pc = 0
    /\ \E cin \in 1..MaxInChannels, cout \in 1..MaxOutChannels, s \in Shapes :
          fwd' = [FwdIdle EXCEPT !.pc = 1, !.in_channels = cin, !.out_channels = cout,
                                 !.env = InitEnv(Tensor(cin, s, FALSE))]
    /\ UNCHANGED << trainVars, modelVars, chk >>

\* The next statement of forward; the last one is followed by "return out".
ForwardStep ==
    /\ fwd.pc \in 1..Len(ForwardBody)
    /\ fwd.err = "none"
    /\ LET st == ForwardBody[fwd.pc]
           r  == ExecStmt(SegmentationNet(fwd.in_channels, fwd.out_channels), fwd.env, st)
           s  == IF Len(st.args) = 2
                 THEN Append(fwd.skips, [stage |-> st.attr, skip |-> fwd.env[st.args[2]]])
                 ELSE fwd.skips
       IN  fwd' = IF r.ok
                  THEN [fwd EXCEPT !.pc = fwd.pc + 1,
                                   !.env = Bind(fwd.env, st.dst, r.t),
                                   !.returned = (fwd.pc = Len(ForwardBody)),
                                   !.skips = s]
                  ELSE [fwd EXCEPT !.err = r.err, !.skips = s]
    /\ UNCHANGED << trainVars, modelVars, chk >>

----------------------------------------------------------------------------
(***************************************************************************)
(* src/train.py: the checkpoint folder                                     *)
(***************************************************************************)

\* A file is << >> when absent and << content >> when present.
NoFile == << >>
File(content) == << content >>
IsFile(f) == f # NoFile
Content(f) == f[1]

\* save_pytorch_model(state, filename) / load_pytorch_model(filename) of
\* utils.tools: the object written is the object read back.
save_pytorch_model(state) == File(state)
load_pytorch_model(f) == Content(f)

\* The folder chk_<epoch> : params.pth, optimizer.pth, config.py.
Folder(params, opt, config) == [params |-> params, opt |-> opt, config |-> config]

\* The dict save_checkpoint writes to params.pth (the preprocessing entries,
\* copied from cfg.dataset unchanged, are left out).
CheckpointState(epoch, batch, net_name, stride, state_dict, in_channels, out_channels) ==
    [epoch |-> epoch, batch |-> batch, net |-> net_name, max_stride |-> stride,
     state_dict |-> state_dict, in_channels |-> in_channels,
     out_channels |-> out_channels]

\* save_checkpoint with optimizer.pth written from the network's state_dict.
save_checkpoint_NetAsOpt(st, net, opt, epoch, batch, net_name, stride, num_modality, num_classes) ==
    LET state == CheckpointState(epoch, batch, net_name, stride, net,
                                 num_modality, num_classes)
        files == Folder(save_pytorch_model(state), save_pytorch_model(net), TRUE)
    IN  [e \in DOMAIN st \cup {epoch} |-> IF e = epoch THEN files ELSE st[e]]

\* save_checkpoint(net, opt, epoch_idx, batch_idx, cfg, config_file, max_stride,
\* num_modality): the store afterwards.  st maps each existing chk folder's
\* epoch to its files.
save_checkpoint(st, net, opt, epoch, batch, net_name, stride, num_modality, num_classes) ==
    LET state == CheckpointState(epoch, batch, net_name, stride, net,
                                 num_modality, num_classes)
        files == Folder(save_pytorch_model(state), save_pytorch_model(opt), TRUE)
    IN  [e \in DOMAIN st \cup {epoch} |-> IF e = epoch THEN files ELSE st[e]]

\* os.path.isfile of the two files load_checkpoint reads.
ParamsPresent(st, epoch) == epoch \in DOMAIN st /\ IsFile(st[epoch].params)
OptPresent(st, epoch)    == epoch \in DOMAIN st /\ IsFile(st[epoch].opt)

\* load_checkpoint(epoch_idx, net, opt, save_dir): the network's parameters,
\* the optimizer's state and the outcome after the call on (net, opt).
load_checkpoint(st, epoch, net, opt) ==
    IF ~ParamsPresent(st, epoch)
    THEN [net |-> net, opt |-> opt, err |-> "AssertionError", ret |-> << >>]
    ELSE LET state == load_pytorch_model(st[epoch].params)
         IN  IF ~OptPresent(st, epoch)
             THEN [net |-> state.state_dict, opt |-> opt,
                   err |-> "AssertionError", ret |-> << >>]
             ELSE [net |-> state.state_dict,
                   opt |-> load_pytorch_model(st[epoch].opt),
                   err |-> "none", ret |-> << state.epoch, state.batch >>]

EmptyStore == [e \in {} |-> Folder(NoFile, NoFile, FALSE)]

----------------------------------------------------------------------------
(***************************************************************************)
(* src/train.py: train()                                                   *)
(*                                                                         *)
(* The configuration is an input.  cfg.general is drawn in Init; the other *)
(* sections are drawn by the step of train() that first depends on them    *)
(* and are never written again.  A section not drawn yet is Unread.        *)
(***************************************************************************)
Unread == [read |-> FALSE]

ResumeEpochs == {-1, 0, 1}
General == [resume_epoch : ResumeEpochs, clear_start_epoch : BOOLEAN]

\* What the operator may type at the prompt, and str.lower() of it.
Responses == {"yes", "YES", "no", "No", "maybe"}
Lower_CaseSensitive(r) == r
Lower(r) == CASE r \in {"yes", "YES"} -> "yes"
              [] r \in {"no", "No"}   -> "no"
              [] OTHER                -> r

CropSizes == { <<8 * a, 32, 32>> : a \in 1..MaxCropUnits }
NetNames  == {"vbnet", "vbbnet"}
Dataset ==
    [read : {TRUE}, crop_size : CropSizes, net_name : NetNames,
     len : 1..MaxDataLen, num_modality : {1}, num_classes : {2}]

\* cfg.train; sched_last_epoch is cfg.train.lr_scheduler.params' last_epoch
\* (-1 when the configuration leaves it out).
TrainCfg ==
    [read : {TRUE}, batchsize : 1..MaxBatchsize, epochs : 1..MaxEpochs,
     save_epochs : 1..MaxSaveEpochs, plot_snapshot : 1..MaxPlotSnapshot,
     sched_last_epoch : {-1, 0}]

\* cfg.loss: the tags in cfg.loss.name and len(cfg.loss.loss_weight).
LossCfg ==
    [read : {TRUE},
     name : {{"Dice", "Focal"}, {"Dice", "Focal", "Boundary"}},
     n_weights : {2, 3}]

\* The stores a previous run may have left under save_dir: nothing, the
\* checkpoint of epoch 1, or that checkpoint with one of its files missing.
max_stride == <<16, 16, 16>>
PriorFolder == save_checkpoint(EmptyStore, 1, 1, 1, 1, "vbnet", max_stride, 1, 2)[1]
PriorStores ==
    { EmptyStore,
      [e \in {1} |-> PriorFolder],
      [e \in {1} |-> [PriorFolder EXCEPT !.opt = NoFile]],
      [e \in {1} |-> [PriorFolder EXCEPT !.params = NoFile]] }

\* network.vbnet's SegmentationNet.forward.
VbnetForward(in_channels, out_channels, x) ==
    Ok(Tensor(out_channels, x.s, TRUE))

\* net(crops): the network class is network.<cfg.net.name>.SegmentationNet.
NetCall(net_name, in_channels, out_channels, x) ==
    IF net_name = "vbbnet"
    THEN Forward(in_channels, out_channels, x)
    ELSE VbnetForward(in_channels, out_channels, x)

\* len(data_loader): DataLoader over EpochConcateSampler(dataset, epochs),
\* epochs * len(dataset) samples in batches of batchsize, the last one partial.
LenDataLoader(epochs, len, batchsize) ==
    (epochs * len + batchsize - 1) \div batchsize

\* np.all(np.array(crop_size) % np.array(max_stride) == 0)
CropSizeOk(crop_size, stride) == \A k \in 1..3 : crop_size[k] % stride[k] = 0

\* The epoch computed from the batch counter after its increment.
EpochOf_PostIncrement(b, batchsize, len) == ((b + 1) * batchsize) \div len

\* epoch_idx = batch_idx * cfg.train.batchsize // len(dataset)
EpochOf(b, batchsize, len) == (b * batchsize) \div len

\* loss_func_list: one entry per tag found in cfg.loss.name, in this order.
LossFuncList(name) ==
    LET dice  == IF "Dice" \in name THEN <<"MultiDiceLoss">> ELSE << >>
        focal == IF "Focal" \in name THEN <<"FocalLoss">> ELSE << >>
        bnd   == IF "Boundary" \in name THEN <<"BoundarySoftDice">> ELSE << >>
    IN  dice \o focal \o bnd

\* if epoch_idx != scheduler.last_epoch: scheduler.step()
SchedulerSteps(epoch, cursor) == epoch # cursor

\* if (batch_idx + 1) % cfg.train.plot_snapshot == 0, batch_idx already incremented
PlotDue(b, plot_snapshot) == (b + 1) % plot_snapshot = 0

\* The save condition without the last_save_epoch guard.
SaveDue_Unguarded(epoch, save_epochs, last) ==
    /\ epoch # 0
    /\ epoch % save_epochs = 0

\* if epoch_idx != 0 and (epoch_idx % save_epochs == 0): if last_save_epoch != epoch_idx
SaveDue(epoch, save_epochs, last) ==
    /\ epoch # 0
    /\ epoch % save_epochs = 0
    /\ last # epoch

\* The checkpoint store used on its own: the number of calls made, the last
\* call, and for each epoch the arguments of the latest save_checkpoint.
NoCall  == [op |-> "none", epoch |-> 0, err |-> "none", ret |-> << >>,
            net_before |-> 0, opt_before |-> 0]
ChkIdle == [ops |-> 0, last |-> NoCall, saved |-> [e \in {} |-> 0]]

\* Before line 223 nothing has been asked.
NoPrompt == [asked |-> FALSE, response |-> ""]

Fail(e, at) == pc' = "error" /\ err' = e /\ errAt' = at

Init ==
    /\ pc = "confirm" /\ err = "none" /\ errAt = "none"
    /\ general \in General
    /\ save_dir_exists \in BOOLEAN
    /\ prompt = NoPrompt
    /\ store \in IF save_dir_exists THEN PriorStores ELSE {EmptyStore}
    /\ dataset = Unread /\ trainCfg = Unread /\ lossCfg = Unread
    /\ netParams = 0 /\ optState = 0
    /\ last_epoch = 0 /\ batch_idx = 0 /\ iter = 0 /\ epoch_idx = 0
    /\ last_save_epoch = 0
    /\ batch_losses = << >> /\ plotted = << >>
    /\ fwdCalls = 0 /\ bwdCalls = 0 /\ optSteps = 0
    /\ schedLog = << >> /\ saveLog = << >>
    /\ firstIter = [e \in {} |-> 0]
    /\ chk = ChkIdle
    /\ fwd = FwdIdle

\* Lines 223-233: the prompt about an existing save directory.
ConfirmSaveDir ==
    /\ pc = "confirm"
    /\ IF general.resume_epoch < 0 /\ save_dir_exists
       THEN \E response \in Responses :
              LET choice == Lower(response)
              IN  /\ prompt' = [asked |-> TRUE, response |-> response]
                  /\ IF choice = "yes"
                     THEN /\ save_dir_exists' = FALSE
                          /\ store' = EmptyStore
                          /\ pc' = "build"
                          /\ UNCHANGED << err, errAt >>
                     ELSE IF choice = "no"
                     THEN /\ pc' = "build"
                          /\ UNCHANGED << err, errAt, save_dir_exists, store >>
                     ELSE /\ Fail("ValueError", "confirm")
                          /\ UNCHANGED << save_dir_exists, store >>
       ELSE /\ pc' = "build"
            /\ UNCHANGED << err, errAt, save_dir_exists, store, prompt >>
    /\ UNCHANGED << general, dataset, trainCfg, lossCfg, netParams, optState,
                    last_epoch, batch_idx, iter, epoch_idx, last_save_epoch,
                    batch_losses, plotted, fwdCalls, bwdCalls, optSteps, schedLog,
                    saveLog, firstIter, chk, fwd >>

\* Lines 238-269: dataset, data loader, network, and the crop-size assertion.
BuildNet ==
    /\ pc = "build"
    /\ \E d \in Dataset :
          /\ dataset' = d
          /\ IF CropSizeOk(d.crop_size, max_stride)
             THEN pc' = "setup" /\ UNCHANGED << err, errAt >>
             ELSE Fail("AssertionError", "build")
    /\ netParams' = 0
    /\ UNCHANGED << general, prompt, save_dir_exists, store, trainCfg, lossCfg, optState,
                    last_epoch, batch_idx, iter, epoch_idx, last_save_epoch,
                    batch_losses, plotted, fwdCalls, bwdCalls, optSteps, schedLog,
                    saveLog, firstIter, chk, fwd >>

\* Lines 271-295: optimizer, resume, scheduler, batch_idx.  With
\* resume_epoch >= 0 line 279 evaluates 'chk_{}'.cfg, an attribute no str
\* has, before torch.load is called.
Setup ==
    /\ pc = "setup"
    /\ optState' = 0
    /\ IF general.resume_epoch >= 0
       THEN /\ Fail("AttributeError", "setup")
            /\ UNCHANGED << trainCfg, lossCfg, last_save_epoch, last_epoch, batch_idx >>
       ELSE \E t \in TrainCfg, l \in LossCfg :
              LET batch_start == 0
              IN  /\ trainCfg' = t
                  /\ lossCfg' = l
                  /\ last_save_epoch' = 0
                  /\ last_epoch' = t.sched_last_epoch + 1
                  /\ batch_idx' = IF general.clear_start_epoch THEN 0 ELSE batch_start
                  /\ pc' = "loop"
                  /\ UNCHANGED << err, errAt >>
    /\ batch_losses' = << >>
    /\ UNCHANGED << general, prompt, save_dir_exists, store, dataset, netParams,
                    iter, epoch_idx, plotted, fwdCalls, bwdCalls, optSteps, schedLog,
                    saveLog, firstIter, chk, fwd >>

NumBatches == LenDataLoader(trainCfg.epochs, dataset.len, trainCfg.batchsize)

\* Lines 297-313: next batch, zero_grad, the forward pass, the Dice score.
BatchForward ==
    /\ pc = "loop"
    /\ iter < NumBatches
    /\ fwdCalls' = fwdCalls + 1
    /\ LET outputs == NetCall(dataset.net_name, dataset.num_modality, dataset.num_classes,
                              Tensor(dataset.num_modality, dataset.crop_size, FALSE))
       IN  IF outputs.ok
           THEN pc' = "loss" /\ UNCHANGED << err, errAt >>
           ELSE Fail(outputs.err, "forward")
    /\ UNCHANGED << general, prompt, save_dir_exists, store, dataset, trainCfg, lossCfg,
                    netParams, optState, last_epoch, batch_idx, iter, epoch_idx,
                    last_save_epoch, batch_losses, plotted, bwdCalls, optSteps,
                    schedLog, saveLog, firstIter, chk, fwd >>

\* Lines 315-338: epoch_idx, the loss list, the count assertion, the losses.
BatchLoss ==
    /\ pc = "loss"
    /\ LET e == EpochOf(batch_idx, trainCfg.batchsize, dataset.len)
       IN  /\ epoch_idx' = e
           /\ firstIter' = IF e \in DOMAIN firstIter
                           THEN firstIter
                           ELSE [x \in DOMAIN firstIter \cup {e} |->
                                    IF x = e THEN iter ELSE firstIter[x]]
    /\ IF Len(LossFuncList(lossCfg.name)) = lossCfg.n_weights
       THEN pc' = "update" /\ UNCHANGED << err, errAt >>
       ELSE Fail("AssertionError", "loss")
    /\ UNCHANGED << general, prompt, save_dir_exists, store, dataset, trainCfg, lossCfg,
                    netParams, optState, last_epoch, batch_idx, iter,
                    last_save_epoch, batch_losses, plotted, fwdCalls, bwdCalls,
                    optSteps, schedLog, saveLog, chk, fwd >>

\* Lines 340-349: backward, optimizer step, scheduler step, batch_idx += 1.
BatchUpdate ==
    /\ pc = "update"
    /\ bwdCalls' = bwdCalls + 1
    /\ optSteps' = optSteps + 1
    /\ netParams' = netParams + 1
    /\ optState' = optState + 1
    /\ last_epoch' = IF SchedulerSteps(epoch_idx, last_epoch)
                     THEN last_epoch + 1 ELSE last_epoch
    /\ schedLog' = Append(schedLog, [epoch |-> epoch_idx, before |-> last_epoch,
                                     after |-> last_epoch'])
    /\ batch_idx' = batch_idx + 1
    /\ pc' = "report"
    /\ UNCHANGED << err, errAt, general, prompt, save_dir_exists, store, dataset, trainCfg,
                    lossCfg, iter, epoch_idx, last_save_epoch, batch_losses, plotted,
                    fwdCalls, saveLog, firstIter, chk, fwd >>

\* Lines 350-371: the loss accumulator, the progress plot, the checkpoint.
BatchReport ==
    /\ pc = "report"
    /\ LET losses == Append(batch_losses, iter)
       IN  IF PlotDue(batch_idx, trainCfg.plot_snapshot)
           THEN /\ plotted' = Append(plotted, [batch |-> batch_idx, of |-> losses])
                /\ batch_losses' = << >>
           ELSE /\ batch_losses' = losses
                /\ UNCHANGED plotted
    /\ IF SaveDue(epoch_idx, trainCfg.save_epochs, last_save_epoch)
       THEN /\ store' = save_checkpoint(store, netParams, optState, epoch_idx, batch_idx,
                                        dataset.net_name, max_stride,
                                        dataset.num_modality, dataset.num_classes)
            /\ save_dir_exists' = TRUE
            /\ saveLog' = Append(saveLog, [epoch |-> epoch_idx, batch |-> batch_idx,
                                           iter |-> iter])
            /\ last_save_epoch' = epoch_idx
       ELSE UNCHANGED << store, save_dir_exists, saveLog, last_save_epoch >>
    /\ iter' = iter + 1
    /\ pc' = "loop"
    /\ UNCHANGED << err, errAt, general, prompt, dataset, trainCfg, lossCfg, netParams,
                    optState, last_epoch, batch_idx, epoch_idx, fwdCalls, bwdCalls,
                    optSteps, schedLog, firstIter, chk, fwd >>

\* range(len(data_loader)) is exhausted: train() returns.
LoopExit ==
    /\ pc = "loop"
    /\ iter >= NumBatches
    /\ pc' = "done"
    /\ UNCHANGED << err, errAt, general, prompt, save_dir_exists, store, dataset, trainCfg,
                    lossCfg, netParams, optState, last_epoch, batch_idx, iter,
                    epoch_idx, last_save_epoch, batch_losses, plotted, fwdCalls,
                    bwdCalls, optSteps, schedLog, saveLog, firstIter, chk, fwd >>

Next ==
    \/ ConfirmSaveDir
    \/ BuildNet
    \/ Setup
    \/ BatchForward
    \/ BatchLoss
    \/ BatchUpdate
    \/ BatchReport
    \/ LoopExit

Spec == Init /\ [][Next]_vars

----------------------------------------------------------------------------
(***************************************************************************)
(* save_checkpoint and load_checkpoint called on their own, on any network *)
(* and optimizer, over a store a previous run may have left.               *)
(***************************************************************************)
\* Init, but for the network and optimizer the calls are made on.
IdleOn(P, O) ==
    /\ pc = "confirm" /\ err = "none" /\ errAt = "none"
    /\ general = [resume_epoch |-> -1, clear_start_epoch |-> FALSE]
    /\ prompt = NoPrompt
    /\ dataset = Unread /\ trainCfg = Unread /\ lossCfg = Unread
    /\ netParams = P /\ optState = O
    /\ last_epoch = 0 /\ batch_idx = 0 /\ iter = 0 /\ epoch_idx = 0
    /\ last_save_epoch = 0
    /\ batch_losses = << >> /\ plotted = << >>
    /\ fwdCalls = 0 /\ bwdCalls = 0 /\ optSteps = 0
    /\ schedLog = << >> /\ saveLog = << >>
    /\ firstIter = [e \in {} |-> 0]
    /\ chk = ChkIdle
    /\ fwd = FwdIdle

InitChk ==
    /\ IdleOn(0, 0)
    /\ save_dir_exists = TRUE
    /\ store \in PriorStores

\* The parameter sets and optimizer states the calls are made on: the fresh
\* one and one that has been trained.
Versions == {0, 1}

\* save_checkpoint(net, opt, e, b, ...) on any network and optimizer.
ChkSave ==
    /\ chk.ops < MaxChkOps
    /\ \E e \in 0..MaxChkEpoch, b \in 0..MaxChkBatch, P \in Versions, O \in Versions :
          /\ netParams' = P
          /\ optState' = O
          /\ store' = save_checkpoint(store, P, O, e, b, "vbbnet", max_stride, 1, 2)
          /\ chk' = [ops   |-> chk.ops + 1,
                     last  |-> [NoCall EXCEPT !.op = "save", !.epoch = e,
                                              !.net_before = P, !.opt_before = O],
                     saved |-> [x \in DOMAIN chk.saved \cup {e} |->
                                   IF x = e
                                   THEN [net |-> P, opt |-> O, batch |-> b,
                                         at |-> chk.ops + 1]
                                   ELSE chk.saved[x]]]
    /\ UNCHANGED << trainVars, fwd >>

\* load_checkpoint(e, net, opt, save_dir) on any network and optimizer.
ChkLoad ==
    /\ chk.ops < MaxChkOps
    /\ \E e \in 0..MaxChkEpoch, P \in Versions, O \in Versions :
          LET r == load_checkpoint(store, e, P, O)
          IN  /\ netParams' = r.net
              /\ optState' = r.opt
              /\ chk' = [chk EXCEPT !.ops = chk.ops + 1,
                                    !.last = [op |-> "load", epoch |-> e, err |-> r.err,
                                              ret |-> r.ret, net_before |-> P,
                                              opt_before |-> O]]
    /\ UNCHANGED << trainVars, store, fwd >>

NextChk == ChkSave \/ ChkLoad

SpecChk == InitChk /\ [][NextChk]_vars

----------------------------------------------------------------------------
(***************************************************************************)
(* SegmentationNet.forward on its own.                                     *)
(***************************************************************************)
InitNet ==
    /\ IdleOn(0, 0)
    /\ save_dir_exists = FALSE
    /\ store = EmptyStore

NextNet == ForwardCall \/ ForwardStep

SpecNet == InitNet /\ [][NextNet]_vars

----------------------------------------------------------------------------
(***************************************************************************)
(* Properties                                                              *)
(***************************************************************************)

\* train() has gone through the resume step of lines 277-290.
SetupRan ==
    \/ pc \in {"loop", "loss", "update", "report", "done"}
    \/ pc = "error" /\ errAt \in {"setup", "forward", "loss"}

Resuming == general.resume_epoch >= 0

\* Both files of the checkpoint train() is asked to resume from exist.
ResumeChkComplete ==
    /\ ParamsPresent(store, general.resume_epoch)
    /\ OptPresent(store, general.resume_epoch)

\* C1: while consecutive batches share one derived epoch_idx the scheduler's
\* cursor advances at most once, and between any two batches the cursor
\* advances exactly as many times as epoch boundaries were crossed.
C1_SchedulerOncePerEpoch ==
    \A i \in 1..Len(schedLog) : \A j \in i..Len(schedLog) :
        /\ (\A k \in i..j : schedLog[k].epoch = schedLog[i].epoch)
              => schedLog[j].after - schedLog[i].before <= 1
        /\ schedLog[j].after - schedLog[i].after
              = schedLog[j].epoch - schedLog[i].epoch

\* C2: once train() is past its resume step in a run that resumes from a
\* checkpoint whose files exist, the network holds the checkpoint's parameters
\* and the optimizer the checkpoint's state until the first optimizer step.
C2_ResumeRestores ==
    (SetupRan /\ Resuming /\ ResumeChkComplete /\ optSteps = 0)
        => /\ errAt # "setup"
           /\ netParams = Content(store[general.resume_epoch].params).state_dict
           /\ optState = Content(store[general.resume_epoch].opt)

\* C3: a run that does not resume, or resumes from a checkpoint whose files
\* exist, reaches the loop, and batch_idx at the start of the loop is the
\* checkpoint's batch offset when resuming without clear_start_epoch and 0
\* otherwise.
C3_BatchStart ==
    (SetupRan /\ (~Resuming \/ ResumeChkComplete))
        => /\ errAt # "setup"
           /\ (pc = "loop" /\ iter = 0)
                 => batch_idx =
                       IF Resuming /\ ~general.clear_start_epoch
                       THEN Content(store[general.resume_epoch].params).batch
                       ELSE 0

\* The save_checkpoint calls made for epoch e so far.
SavesOf(e) == { k \in 1..Len(saveLog) : saveLog[k].epoch = e }

\* C4: save_checkpoint is invoked for epoch e exactly when e # 0, e is a
\* multiple of save_epochs and the loop reaches e: exactly once, in the first
\* batch whose derived epoch_idx is e, and for no other epoch.
C4_SaveOncePerDueEpoch ==
    trainCfg # Unread =>
        /\ \A k \in 1..Len(saveLog) :
              /\ saveLog[k].epoch \in DOMAIN firstIter
              /\ saveLog[k].iter = firstIter[saveLog[k].epoch]
              /\ saveLog[k].epoch # 0
              /\ saveLog[k].epoch % trainCfg.save_epochs = 0
        /\ \A e \in DOMAIN firstIter :
              Cardinality(SavesOf(e)) =
                  IF e # 0 /\ e % trainCfg.save_epochs = 0 /\ firstIter[e] < iter
                  THEN 1 ELSE 0

\* C4 witness: a second batch of an epoch whose checkpoint was saved in its
\* first batch has completed.
C4_Witness ==
    /\ pc = "loop"
    /\ saveLog # << >>
    /\ epoch_idx = saveLog[Len(saveLog)].epoch
    /\ iter > saveLog[Len(saveLog)].iter + 1

\* C5: with a loss-term count that differs from the weight count no forward
\* pass is ever started.
C5_LossCheckBeforeForward ==
    (lossCfg # Unread /\ Len(LossFuncList(lossCfg.name)) # lossCfg.n_weights)
        => fwdCalls = 0

\* The stride-2 convolutions on the way down: PreBlock and DownTransition.
RECURSIVE Halvings(_)
Halvings(k) ==
    IF k = 0 THEN 0
    ELSE Halvings(k - 1)
         + (IF /\ ForwardBody[k].attr \in DOMAIN SegmentationNet(1, 2)
               /\ SegmentationNet(1, 2)[ForwardBody[k].attr].kind
                     \in {"PreBlock", "DownTransition"}
            THEN 1 ELSE 0)
RECURSIVE Pow2(_)
Pow2(n) == IF n = 0 THEN 1 ELSE 2 * Pow2(n - 1)
TotalStride == Pow2(Halvings(Len(ForwardBody)))

\* C6: every crop size train() accepts is divisible along each axis by the
\* network's total downsampling factor, and goes through vbbnet's forward
\* without a shape error.
C6_MaxStrideIsTotalStride ==
    (dataset # Unread /\ errAt # "build" /\ pc # "build")
        => /\ \A k \in 1..3 : dataset.crop_size[k] % TotalStride = 0
           /\ Forward(dataset.num_modality, dataset.num_classes,
                      Tensor(dataset.num_modality, dataset.crop_size, FALSE)).err
                 # "RuntimeError"

\* C7: on an input whose extents are multiples of the total stride forward
\* raises nothing, and what it returns has the input's extents, out_channels
\* channels and a softmax as its last operation.
C7_ForwardCompletes ==
    (fwd.pc >= 1 /\ \A k \in 1..3 : fwd.env["x"].s[k] % TotalStride = 0)
        => /\ fwd.err = "none"
           /\ fwd.returned
                 => /\ fwd.env["out"].s = fwd.env["x"].s
                    /\ fwd.env["out"].c = fwd.out_channels
                    /\ fwd.env["out"].softmax

\* C8: load_checkpoint(e) after save_checkpoint(e, b, P, O), whatever was
\* saved for other epochs since, leaves the network with P, the optimizer
\* with O, and returns (e, b).
C8_RoundTrip ==
    (chk.last.op = "load" /\ chk.last.epoch \in DOMAIN chk.saved)
        => LET e == chk.last.epoch
           IN  /\ chk.last.err = "none"
               /\ netParams = chk.saved[e].net
               /\ optState = chk.saved[e].opt
               /\ chk.last.ret = << e, chk.saved[e].batch >>

\* C8 witness: the epoch loaded was saved before another epoch was saved with
\* other parameters, and is loaded into a network and an optimizer that held
\* something else.
C8_Witness ==
    /\ chk.last.op = "load"
    /\ chk.last.epoch \in DOMAIN chk.saved
    /\ \E e2 \in DOMAIN chk.saved :
          /\ e2 # chk.last.epoch
          /\ chk.saved[e2].at > chk.saved[chk.last.epoch].at
          /\ chk.saved[e2].net # chk.saved[chk.last.epoch].net
    /\ chk.last.net_before # netParams
    /\ chk.last.opt_before # optState
    /\ netParams # optState
    /\ chk.last.ret[1] # chk.last.ret[2]

\* C9: a run asked to resume from a checkpoint with a file missing ends in
\* the resume step with load_checkpoint's not-found assertion, before any
\* forward pass.
C9_ResumeMissingNotFound ==
    (SetupRan /\ Resuming /\ ~ResumeChkComplete)
        => /\ pc = "error"
           /\ errAt = "setup"
           /\ err = "AssertionError"
           /\ fwdCalls = 0

\* C10: in the loop the derived epoch_idx is at most save_epochs ahead of the
\* last saved epoch (the starting epoch before the first save), and every
\* multiple of save_epochs below epoch_idx has been saved.
C10_LossBoundedBySaveEpochs ==
    (pc \in {"update", "report"} \/ (pc = "loop" /\ iter > 0))
        => /\ epoch_idx - last_save_epoch <= trainCfg.save_epochs
           /\ \A m \in 1..(epoch_idx - 1) :
                 m % trainCfg.save_epochs = 0 => SavesOf(m) # {}


\* C11: an existing save directory is deleted only when resume_epoch < 0 and
\* the operator answers 'yes' in any letter case; on 'no' it is kept and
\* train() goes on; on any other answer train() ends with a ValueError, the
\* directory and its checkpoints untouched and no batch processed; when
\* resume_epoch >= 0 nobody is asked and the directory is never deleted.
C11_SaveDirPrompt ==
    [][ LET deleted == save_dir_exists /\ ~save_dir_exists'
            asking  == pc = "confirm" /\ general.resume_epoch < 0 /\ save_dir_exists
            answer  == prompt'.response
        IN  /\ deleted => (asking /\ answer \in {"yes", "YES"})
            /\ (pc = "confirm") => (prompt'.asked = asking)
            /\ (pc # "confirm") => (prompt' = prompt)
            /\ (asking /\ answer \in {"yes", "YES"}) =>
                   (deleted /\ pc' = "build" /\ err' = "none")
            /\ (asking /\ answer \in {"no", "No"}) =>
                   (save_dir_exists' /\ store' = store /\ pc' = "build" /\ err' = "none")
            /\ (asking /\ answer \notin {"yes", "YES", "no", "No"}) =>
                   (/\ pc' = "error" /\ err' = "ValueError"
                    /\ save_dir_exists' /\ store' = store
                    /\ fwdCalls' = 0 /\ iter' = 0)
            /\ (general.resume_epoch >= 0) => (~prompt'.asked /\ ~deleted)
            /\ (pc = "error") => FALSE
      ]_vars

\* The operator typed YES in capitals and the directory is gone.
C11_Witness ==
    /\ prompt.asked /\ prompt.response = "YES"
    /\ general.resume_epoch < 0
    /\ ~save_dir_exists /\ store = EmptyStore
    /\ pc = "build"

\* The Up stages of the network, and the skip tensors handed to them so far.
UpStages == {"up_tr256", "up_tr128", "up_tr64", "up_tr32"}
UpSkips == { k \in 1..Len(fwd.skips) : fwd.skips[k].stage \in UpStages }

\* C12 as stated: the skip input of each Up stage is the pre-addition tensor
\* ("down") of the Down stage of the same width: Down32 -> Up32, Down64 ->
\* Up64, Down128 -> Up128, Down256 -> Up256.
C12_SkipIsMirrorDown ==
    \A k \in UpSkips :
        LET mirror == ("up_tr256" :> "down_tr256") @@ ("up_tr128" :> "down_tr128")
                      @@ ("up_tr64" :> "down_tr64") @@ ("up_tr32" :> "down_tr32")
            e == fwd.skips[k]
        IN  e.skip.by = mirror[e.stage] /\ e.skip.local = "down"

\* C12, amended: the skip input of each Up stage is the returned tensor
\* (after the residual add and the final activation) of the encoder stage
\* one level shallower: Down128 -> Up256, Down64 -> Up128, Down32 -> Up64,
\* and the Input stage -> Up32; no pre-addition tensor leaves a Down stage.
C12_SkipIsShallowerOutput ==
    /\ \A k \in UpSkips :
           LET feeder == ("up_tr256" :> "down_tr128") @@ ("up_tr128" :> "down_tr64")
                         @@ ("up_tr64" :> "down_tr32") @@ ("up_tr32" :> "in_tr")
               e == fwd.skips[k]
           IN  e.skip.by = feeder[e.stage] /\ e.skip.local = "out"
    /\ \A n \in TensorNames : fwd.env[n].local # "down"

\* All four Up stages have run.
C12_Witness ==
    /\ fwd.err = "none"
    /\ Cardinality(UpSkips) = 4
    /\ fwd.skips[4].stage = "up_tr32"

\* C13: a progress point is emitted exactly after every plot_snapshot-th
\* completed batch (the k-th point after batch k * plot_snapshot), and each
\* point is the mean of exactly the plot_snapshot losses recorded since the
\* previous point; the accumulator is empty right after a point.
C13_PlotEveryNthBatch ==
    (trainCfg # Unread) =>
        LET n == trainCfg.plot_snapshot
        IN  /\ \A k \in 1..Len(plotted) :
                   LET of == plotted[k].of
                   IN  /\ Len(of) = n
                       /\ of = [j \in 1..n |-> (k - 1) * n + j - 1]
            /\ (pc \in {"loop", "done"}) =>
                   /\ Len(plotted) = iter \div n
                   /\ Len(batch_losses) = iter % n

\* C14: the loop runs len(data_loader) batches and then train() returns;
\* batch_idx grows by exactly 1 per completed batch; the epoch used in a
\* batch is batch_idx * batchsize // len(dataset) for the batch_idx before
\* its increment, never decreases from one batch to the next, and is always
\* strictly less than cfg.train.epochs.
C14_BatchEpochBookkeeping ==
    (trainCfg # Unread) =>
        LET bs == trainCfg.batchsize
            n  == dataset.len
            nb == (trainCfg.epochs * n + bs - 1) \div bs
        IN  /\ iter <= nb
            /\ (pc = "done") => (iter = nb /\ batch_idx = nb)
            /\ Len(schedLog) = batch_idx
            /\ batch_idx = (IF pc = "report" THEN iter + 1 ELSE iter)
            /\ \A k \in 1..Len(schedLog) :
                   /\ schedLog[k].epoch = ((k - 1) * bs) \div n
                   /\ schedLog[k].epoch < trainCfg.epochs
                   /\ (k > 1) => (schedLog[k - 1].epoch <= schedLog[k].epoch)
            /\ (pc \in {"update", "report"}) =>
                   /\ epoch_idx = (iter * bs) \div n
                   /\ epoch_idx < trainCfg.epochs

\* train() has returned after four batches, two in epoch 0 and two in epoch 1.
C14_Witness ==
    /\ pc = "done"
    /\ batch_idx = 4
    /\ schedLog[1].epoch = 0 /\ schedLog[2].epoch = 0
    /\ schedLog[3].epoch = 1 /\ schedLog[4].epoch = 1

\* C15: load_checkpoint is all-or-nothing: when it fails because params.pth
\* or optimizer.pth of the requested epoch is absent, the network's
\* parameters and the optimizer's state are what they were before the call.
C15_LoadAllOrNothing ==
    (chk.last.op = "load" /\ chk.last.err # "none")
        => /\ netParams = chk.last.net_before
           /\ optState = chk.last.opt_before

=============================================================================
